---------------------------- MODULE Spec2Model ----------------------------
(***************************************************************************)
(* ClairKeys OMR service: the MusicXML -> animation-data converter         *)
(* (omr-service/omr/converter.py, MusicXMLToClairKeysConverter), the job   *)
(* pipeline of omr-service/app.py with its status map, the storage sink    *)
(* of omr-service/omr/storage.py and the OMR step of                       *)
(* omr-service/omr/audiveris.py.                                           *)
(*                                                                         *)
(* Conventions of the model                                                *)
(*  - Times are Python floats in seconds; the model keeps them as integer  *)
(*    thousandths of a second, so float(text) / 4.0 of a whole number of   *)
(*    duration units is (units * 1000) \div 4 and the default 0.5 is 500.  *)
(*  - An Optional value (None or a value) is the sequence << >> or <<v>>.  *)
(*  - An XML child element is a record [kind, val]:                        *)
(*      kind "absent"  find() returns None                                 *)
(*      kind "empty"   the element is there and its .text is None          *)
(*      kind "text"    .text is text that int()/float() reject             *)
(*      kind "int"     .text is the decimal literal of val                 *)
(*      kind "udigit"  .text is a digit character such as a superscript    *)
(*                     two: str.isdigit() accepts it and int() rejects it  *)
(*      kind "dec"     .text is a decimal literal, val in tenths           *)
(*      kind "inf"     .text is "inf"                                      *)
(*  - Text (titles, names) is a sequence of one-character strings.         *)
(*  - The service runs on one asyncio event loop: a coroutine runs until   *)
(*    it awaits something that is not ready.  One action of the job        *)
(*    pipeline is the code between two such suspension points, so every    *)
(*    state of the model is a state another request handler can observe.   *)
(*  - Job ids are uuid4 strings; the model names them 1, 2, ... in the     *)
(*    order of their creation.                                             *)
(***************************************************************************)
EXTENDS Integers, Sequences, FiniteSets, TLC

VARIABLES
    docClass,       \* which family of input documents the behaviour ranges over
    well_formed,    \* input: ET.parse accepts the file
    doc,            \* input: the document-level markings of the file
    title,          \* input: convert's title argument (Optional text)
    composer,       \* input: convert's composer argument (Optional text)
    remaining,      \* input: how many <note> elements the file still holds
    pc,             \* position of convert / _extract_notes
    metadata,       \* convert: metadata
    notes,          \* _extract_notes: notes (sorted in place at line 134)
    emitted,        \* history: every appended note with the index of its part
    part_idx,       \* _extract_notes: part_idx of enumerate(parts)
    hand,           \* _extract_notes: hand
    part_time,      \* _extract_notes: part_time
    measure_time,   \* _extract_notes: measure_time
    note_elem,      \* _extract_notes: note_elem of the current iteration
    note_data,      \* _extract_notes: note_data of the current iteration
    duration,       \* convert: animation_data["duration"]
    tempo,          \* convert: animation_data["tempo"]
    keySignature,   \* convert: animation_data["keySignature"]
    timeSignature,  \* convert: animation_data["timeSignature"]
    returned,       \* convert returned animation_data
    raised,         \* an exception left convert
    processing_jobs,\* app.py: processing_jobs, job id -> entry
    task,           \* per job id: position of process_pdf_background and the
                    \* exception its handler caught
    temp_dir,       \* per job id: /data/processing/{job_id} exists
    credentials,    \* storage: supabase_url and supabase_key are both set
    audiveris,      \* per job id: what the Audiveris subprocess does
    upload,         \* per job id: the call of upload_animation_data
    statuses,       \* history, per job id: every value assigned to "status"
    observed        \* the last response of GET /status/{job_id}

converterVars == <<docClass, well_formed, doc, title, composer, remaining, pc,
                   metadata, notes, emitted, part_idx, hand, part_time,
                   measure_time, note_elem, note_data, duration, tempo,
                   keySignature, timeSignature, returned, raised>>

jobVars == <<processing_jobs, task, temp_dir, credentials, audiveris, upload,
             statuses, observed>>

vars == <<converterVars, jobVars>>

-----------------------------------------------------------------------------
(* Bounds of the model *)

\* <note> elements in a document of the timing family
MaxElems == 3
\* <part> elements in a document
MaxParts == 3
\* POST /process requests the service accepts
MaxJobs == 2

-----------------------------------------------------------------------------
(* Values *)

None == << >>
Some(v) == <<v>>

Absent == [kind |-> "absent", val |-> 0]
Empty == [kind |-> "empty", val |-> 0]
Txt == [kind |-> "text", val |-> 0]
UDigit == [kind |-> "udigit", val |-> 0]
Inf == [kind |-> "inf", val |-> 0]
Num(n) == [kind |-> "int", val |-> n]
Deci(tenths) == [kind |-> "dec", val |-> tenths]

\* int(elem.text) succeeds
IntParses(f) == f.kind = "int"
\* float(elem.text) succeeds with a finite value
FloatParses(f) == f.kind \in {"int", "dec"}

-----------------------------------------------------------------------------
(* _note_to_midi *)

PianoLow == 21
PianoHigh == 108

base_notes == [C |-> 60, D |-> 62, E |-> 64, F |-> 65, G |-> 67, A |-> 69, B |-> 71]

InPianoRangeWide(midi_num) == 0 <= midi_num /\ midi_num <= 127

\* line 201: 21 <= midi_num <= 108
InPianoRange(midi_num) == PianoLow <= midi_num /\ midi_num <= PianoHigh

MidiNumberNoAlter(step, octave, alter) == base_notes[step] + (octave - 4) * 12

\* line 198
MidiNumber(step, octave, alter) == base_notes[step] + (octave - 4) * 12 + alter

\* lines 188-207: Optional[int]
NoteToMidi(step, octave, alter) ==
    IF step \notin DOMAIN base_notes THEN None
    ELSE IF InPianoRange(MidiNumber(step, octave, alter))
         THEN Some(MidiNumber(step, octave, alter))
         ELSE None

-----------------------------------------------------------------------------
(* _parse_note_element *)

\* float(elem.text) in thousandths
FloatOf(f) == IF f.kind = "dec" THEN f.val * 100 ELSE f.val * 1000

\* line 166: float(duration_elem.text) / 4.0 if duration_elem is not None else 0.5
DurationSeconds(duration_elem) ==
    IF duration_elem.kind # "absent" THEN FloatOf(duration_elem) \div 4 ELSE 500

\* str.isdigit() of the fingering text
IsDigit(f) == (f.kind = "int" /\ f.val >= 0) \/ f.kind = "udigit"

FingerUnchecked(fingering_elem) ==
    IF fingering_elem.kind # "absent" /\ IsDigit(fingering_elem)
    THEN Some(fingering_elem.val)
    ELSE None

\* lines 170-174, once fingering_elem.text.isdigit() and int() have not raised
Finger(fingering_elem) ==
    IF fingering_elem.kind # "absent" /\ IsDigit(fingering_elem)
    THEN IF fingering_elem.val < 1 \/ fingering_elem.val > 5
         THEN None
         ELSE Some(fingering_elem.val)
    ELSE None

\* line 170 raises: None.isdigit() on an element without text (AttributeError),
\* or int() of a digit character it does not accept (ValueError)
FingeringRaises(fingering_elem) == fingering_elem.kind \in {"empty", "udigit"}

\* lines 138-186: Optional[note]. Every exception raised inside is caught at
\* line 184 and makes the result None.
ParseNoteElement(e, current_time, hnd) ==
    IF e.rest THEN None                                       \* lines 142-147
    ELSE IF ~e.pitch THEN None                                \* lines 150-152
    ELSE IF e.step.kind = "absent" THEN None                  \* line 154 raises
    ELSE IF ~IntParses(e.octave) THEN None                    \* line 155 raises
    ELSE IF e.alter.kind # "absent" /\ ~IntParses(e.alter)
         THEN None                                            \* line 157 raises
    ELSE IF e.step.kind = "empty" THEN None                   \* line 194, step is None
    ELSE LET alter_value == IF e.alter.kind # "absent" THEN e.alter.val ELSE 0
             midi_num == NoteToMidi(e.step.val, e.octave.val, alter_value)
         IN  IF midi_num = None THEN None                     \* lines 161-162
             ELSE IF e.duration.kind # "absent" /\ ~FloatParses(e.duration)
                  THEN None                                   \* line 166 raises
             ELSE IF FingeringRaises(e.fingering) THEN None   \* line 170 raises
             ELSE Some([midi |-> midi_num[1],
                        start |-> current_time,
                        duration |-> DurationSeconds(e.duration),
                        hand |-> hnd,
                        finger |-> Finger(e.fingering)])

-----------------------------------------------------------------------------
(* _extract_notes: the sort of line 134, and _calculate_duration *)

Front(s) == SubSeq(s, 1, Len(s) - 1)
Last(s) == s[Len(s)]

SortsAfterStrict(x, n) == x.start < n.start

\* line 134: list.sort(key=lambda n: n['start']) is stable, so a note goes
\* behind every note whose key is lower than or equal to its own
SortsAfter(x, n) == x.start <= n.start

RECURSIVE InsertByStart(_, _)
InsertByStart(s, n) ==
    IF s = << >> THEN <<n>>
    ELSE IF SortsAfter(Last(s), n) THEN Append(s, n)
    ELSE Append(InsertByStart(Front(s), n), Last(s))

RECURSIVE SortByStart(_)
SortByStart(s) ==
    IF s = << >> THEN << >>
    ELSE InsertByStart(SortByStart(Front(s)), Last(s))

NoteEnd(note) == note.start + note.duration

CalculateDurationLast(ns) ==
    IF ns = << >> THEN 0 ELSE NoteEnd(Last(ns))

\* lines 209-216
CalculateDuration(ns) ==
    IF ns = << >> THEN 0
    ELSE LET ends == {NoteEnd(ns[i]) : i \in 1..Len(ns)}
         IN  CHOOSE m \in ends : \A x \in ends : x <= m

-----------------------------------------------------------------------------
(* _extract_metadata *)

Untitled == <<"U", "n", "t", "i", "t", "l", "e", "d">>
Unknown == <<"U", "n", "k", "n", "o", "w", "n">>

RECURSIVE LStrip(_)
LStrip(t) == IF t # << >> /\ Head(t) = " " THEN LStrip(Tail(t)) ELSE t

RECURSIVE RStrip(_)
RStrip(t) == IF t # << >> /\ Last(t) = " " THEN RStrip(Front(t)) ELSE t

\* str.strip()
Strip(t) == RStrip(LStrip(t))

\* elem.text is truthy: the element holds text, blank or not
HasText(elem) == elem.kind = "text" /\ elem.val # << >>

\* lines 83-89 and 92-98: the element's stripped text, else the truthy
\* argument, else the default
ResolveName(elem, arg, default) ==
    IF elem.kind # "absent" /\ HasText(elem) THEN Strip(elem.val)
    ELSE IF arg # None /\ arg[1] # << >> THEN arg[1]
    ELSE default

\* lines 78-100
ExtractMetadata(root, title_arg, composer_arg) ==
    [title |-> ResolveName(root.work_title, title_arg, Untitled),
     composer |-> ResolveName(root.creator, composer_arg, Unknown)]

-----------------------------------------------------------------------------
(* _extract_tempo, _extract_key_signature, _extract_time_signature.        *)
(* Each gives [raised, value]: raised when an exception leaves the method. *)

DefaultTempo == 120

\* int() of a float in thousandths: truncation toward zero
Trunc(x) == IF x >= 0 THEN x \div 1000 ELSE -((-x) \div 1000)

\* lines 218-229: int(float(text)), ValueError caught; float("inf") makes
\* int() raise OverflowError, which is not caught
ExtractTempo(root) ==
    LET tempo_elem == root.per_minute
    IN  IF tempo_elem.kind \in {"absent", "empty", "text"}
        THEN [raised |-> FALSE, value |-> DefaultTempo]
        ELSE IF tempo_elem.kind = "inf"
        THEN [raised |-> TRUE, value |-> DefaultTempo]
        ELSE [raised |-> FALSE, value |-> Trunc(FloatOf(tempo_elem))]

\* line 239
keys == <<"C", "G", "D", "A", "E", "B", "F#", "C#">>

KeyIndexShort(fifths) == 0 <= fifths /\ fifths < Len(keys) - 1

\* line 240: 0 <= fifths < len(keys)
KeyIndexValid(fifths) == 0 <= fifths /\ fifths < Len(keys)

\* lines 231-243: root.find('.//key') is the first key marking; int() of the
\* fifths text is not guarded
ExtractKeySignature(root) ==
    IF root.key = << >> THEN [raised |-> FALSE, value |-> "C"]
    ELSE LET fifths_elem == Head(root.key).fifths
         IN  IF fifths_elem.kind = "absent" THEN [raised |-> FALSE, value |-> "C"]
             ELSE IF ~IntParses(fifths_elem) THEN [raised |-> TRUE, value |-> "C"]
             ELSE IF KeyIndexValid(fifths_elem.val)
                  THEN [raised |-> FALSE, value |-> keys[fifths_elem.val + 1]]
                  ELSE [raised |-> FALSE, value |-> "C"]

\* str(elem.text) inside the f-string of line 252
TextOf(elem) == IF elem.kind = "empty" THEN "None" ELSE elem.val

\* lines 245-254: "{beats}/{beat-type}" kept as the pair of its two texts
ExtractTimeSignature(root) ==
    IF root.time = << >> THEN [beats |-> "4", beat_type |-> "4"]
    ELSE LET time_elem == Head(root.time)
         IN  IF time_elem.beats.kind # "absent" /\ time_elem.beat_type.kind # "absent"
             THEN [beats |-> TextOf(time_elem.beats),
                   beat_type |-> TextOf(time_elem.beat_type)]
             ELSE [beats |-> "4", beat_type |-> "4"]

-----------------------------------------------------------------------------
(* Input documents *)

StepAbsent == [kind |-> "absent", val |-> ""]
StepEmpty == [kind |-> "empty", val |-> ""]
Step(letter) == [kind |-> "text", val |-> letter]

\* <note> with a <pitch> child
Pitched(st, oct, alt, dur, fing) ==
    [rest |-> FALSE, pitch |-> TRUE, step |-> st, octave |-> oct, alter |-> alt,
     duration |-> dur, fingering |-> fing]

\* <note> with a <rest> child
Rest(dur) ==
    [rest |-> TRUE, pitch |-> FALSE, step |-> StepAbsent, octave |-> Absent,
     alter |-> Absent, duration |-> dur, fingering |-> Absent]

\* <note> with neither <rest> nor <pitch>
Unpitched ==
    [rest |-> FALSE, pitch |-> FALSE, step |-> StepAbsent, octave |-> Absent,
     alter |-> Absent, duration |-> Num(1), fingering |-> Absent]

StepElems == {Step(l) : l \in {"C", "D", "E", "F", "G", "A", "B", "H"}}
                 \cup {StepAbsent, StepEmpty}
OctaveElems == {Num(o) : o \in -1..9} \cup {Absent, Empty, Txt}
AlterElems == {Num(a) : a \in -2..2} \cup {Absent, Empty, Txt}
DurationElems == {Num(d) : d \in -1..2} \cup {Absent, Empty, Txt, Deci(15)}
FingeringElems == {Num(f) : f \in -1..6} \cup {Absent, Empty, Txt, UDigit}

C4 == Step("C")

\* The notes of the timing family: one field at a time is varied around
\* the note C4 of one duration unit without fingering
TimingElems ==
    {Rest(d) : d \in {Txt, Num(2)}}
    \cup {Unpitched}
    \cup {Pitched(Step("C"), Num(0), Absent, Num(1), Absent),
          Pitched(Step("B"), Num(8), Num(1), Num(1), Absent),
          Pitched(Step("H"), Num(4), Absent, Num(1), Absent),
          Pitched(StepAbsent, Num(4), Absent, Num(1), Absent),
          Pitched(StepEmpty, Num(4), Absent, Num(1), Absent),
          Pitched(C4, Absent, Absent, Num(1), Absent),
          Pitched(C4, Empty, Absent, Num(1), Absent),
          Pitched(C4, Txt, Absent, Num(1), Absent),
          Pitched(C4, Num(4), Txt, Num(1), Absent),
          Pitched(C4, Num(4), Empty, Num(1), Absent)}
    \cup {Pitched(C4, Num(4), Absent, d, Absent) : d \in DurationElems \ {Deci(15)}}
    \cup {Pitched(C4, Num(4), Absent, Num(1), f) :
            f \in {Absent, Empty, Txt, UDigit, Num(0), Num(3), Num(6)}}

\* The notes of the single-note family: every pitch, and every duration
\* with every fingering
SingleNoteElems ==
    {Pitched(st, oct, alt, Num(1), Absent) :
        st \in StepElems, oct \in OctaveElems, alt \in AlterElems}
    \cup {Pitched(C4, Num(4), Absent, d, f) : d \in DurationElems, f \in FingeringElems}
    \cup {Rest(Num(2)), Unpitched}

MarkingsElems ==
    {Rest(Num(2)), Pitched(C4, Num(4), Absent, Num(1), Absent),
     Pitched(C4, Txt, Absent, Num(1), Absent)}

NoteElems(class) ==
    IF class = "timing" THEN TimingElems
    ELSE IF class = "note" THEN SingleNoteElems
    ELSE MarkingsElems

TextAbsent == [kind |-> "absent", val |-> << >>]
TextEmpty == [kind |-> "empty", val |-> << >>]
Text(t) == [kind |-> "text", val |-> t]

Blank == <<" ", " ">>
Ode == <<" ", "O", "d", "e">>
Bach == <<"B", "a", "c", "h", " ">>
Hint == <<"H", "i", "n", "t">>

WorkTitles(class) ==
    IF class = "markings" THEN {TextAbsent, TextEmpty, Text(Blank), Text(Ode)}
    ELSE {TextAbsent}
Creators(class) ==
    IF class = "markings" THEN {TextAbsent, Text(Blank), Text(Bach)}
    ELSE {TextAbsent}
TitleArgs(class) ==
    IF class = "markings" THEN {None, Some(<< >>), Some(Hint)} ELSE {None}
ComposerArgs(class) ==
    IF class = "markings" THEN {None, Some(Hint)} ELSE {None}
PerMinutes(class) ==
    IF class = "markings" THEN {Absent, Txt, Deci(905), Inf} ELSE {Absent}

Key(f) == [fifths |-> f]
FifthsElems == {Num(f) : f \in -1..8} \cup {Absent, Empty, Txt}
Keys(class) ==
    IF class = "markings"
    THEN {<< >>} \cup {<<Key(f)>> : f \in FifthsElems}
         \cup {<<Key(f), Key(Num(2))>> : f \in {Absent, Num(-1), Num(1)}}
    ELSE {<< >>}

TimeText(t) == [kind |-> "text", val |-> t]
TimeAbsent == [kind |-> "absent", val |-> ""]
TimeEmpty == [kind |-> "empty", val |-> ""]
Times(class) ==
    IF class = "markings"
    THEN {<< >>,
          <<[beats |-> TimeText("3"), beat_type |-> TimeText("4")]>>,
          <<[beats |-> TimeText("3"), beat_type |-> TimeAbsent]>>,
          <<[beats |-> TimeEmpty, beat_type |-> TimeText("8")]>>}
    ELSE {<< >>}

\* A document whose markings have not been read yet
NoMarkings ==
    [work_title |-> TextAbsent, creator |-> TextAbsent, per_minute |-> Absent,
     key |-> << >>, time |-> << >>]

-----------------------------------------------------------------------------
(* The service of app.py: the status map and what each job's task holds *)

JobIds == 1..MaxJobs

\* lines 61-65: ProcessingStatus
PENDING == "pending"
PROCESSING == "processing"
COMPLETED == "completed"
FAILED == "failed"

\* str(e) of the exception a stage raised; the model names it by the stage
Stages == {"mkdir", "save", "omr", "convert", "upload"}

\* process_pdf_background has not been scheduled for the job id
NoTask == [at |-> "none", e |-> None]

\* upload_animation_data has not been called for the job id
NoResponse == [kind |-> "none", code |-> 0]
NoUpload == [response |-> NoResponse, writes |-> << >>, returned |-> None,
             raised |-> FALSE]

\* no GET /status request has been answered
NoneObserved == [code |-> 0, job_id |-> 0, body |-> None]

\* lines 54-59 and storage.py lines 19-25: the module is loaded, the storage
\* client reads its credentials from the environment, the map is empty
Service(creds) ==
    /\ processing_jobs = << >>
    /\ task = [j \in JobIds |-> NoTask]
    /\ temp_dir = [j \in JobIds |-> FALSE]
    /\ credentials = creds
    /\ audiveris = [j \in JobIds |-> "none"]
    /\ upload = [j \in JobIds |-> NoUpload]
    /\ statuses = [j \in JobIds |-> << >>]
    /\ observed = NoneObserved

-----------------------------------------------------------------------------
(* convert and _extract_notes, one step per statement or loop iteration *)

Document(class, n) ==
    /\ docClass = class
    /\ well_formed = TRUE
    /\ doc = NoMarkings
    /\ title = None
    /\ composer = None
    /\ remaining = n
    /\ pc = "convert"
    /\ metadata = [title |-> << >>, composer |-> << >>]
    /\ notes = << >>
    /\ emitted = << >>
    /\ part_idx = -1
    /\ hand = "R"
    /\ part_time = 0
    /\ measure_time = 0
    /\ note_elem = None
    /\ note_data = None
    /\ duration = 0
    /\ tempo = 0
    /\ keySignature = ""
    /\ timeSignature = [beats |-> "", beat_type |-> ""]
    /\ returned = FALSE
    /\ raised = FALSE

\* convert is called on a document of the family; no request has been made
InitOf(class, n) == Document(class, n) /\ Service(FALSE)

\* Documents of up to MaxElems notes in up to MaxParts parts, no markings
Init == InitOf("timing", MaxElems)

\* Documents of one note, no markings
InitNote == InitOf("note", 1)

\* Documents of one note with every combination of markings and arguments
InitDoc == InitOf("markings", 1)

\* line 49: ET.parse; a file that is not well-formed XML raises, and the
\* handler of lines 74-76 raises it again
Convert_Parse ==
    /\ pc = "convert"
    /\ \E ok \in BOOLEAN :
        /\ well_formed' = ok
        /\ pc' = IF ok THEN "metadata" ELSE "done"
        /\ raised' = ~ok
    /\ UNCHANGED jobVars
    /\ UNCHANGED <<docClass, doc, title, composer, remaining, metadata, notes,
                   emitted, part_idx, hand, part_time, measure_time, note_elem,
                   note_data, duration, tempo, keySignature, timeSignature,
                   returned>>

\* line 53
Convert_Metadata ==
    /\ pc = "metadata"
    /\ \E wt \in WorkTitles(docClass), cr \in Creators(docClass),
          t \in TitleArgs(docClass), c \in ComposerArgs(docClass) :
        /\ doc' = [doc EXCEPT !.work_title = wt, !.creator = cr]
        /\ title' = t
        /\ composer' = c
        /\ metadata' = ExtractMetadata(doc', t, c)
    /\ pc' = "parts"
    /\ UNCHANGED jobVars
    /\ UNCHANGED <<docClass, well_formed, remaining, notes, emitted, part_idx,
                   hand, part_time, measure_time, note_elem, note_data, duration,
                   tempo, keySignature, timeSignature, returned, raised>>

HandOfAlternating(idx) == IF idx % 2 = 0 THEN "R" ELSE "L"

\* line 114
HandOf(idx) == IF idx = 0 THEN "R" ELSE "L"

\* lines 110-114: the loop takes the next part
ExtractNotes_NextPart ==
    /\ pc = "parts"
    /\ part_idx + 1 < MaxParts
    /\ part_idx' = part_idx + 1
    /\ part_time' = 0
    /\ hand' = HandOf(part_idx')
    /\ pc' = "measures"
    /\ UNCHANGED jobVars
    /\ UNCHANGED <<docClass, well_formed, doc, title, composer, remaining,
                   metadata, notes, emitted, measure_time, note_elem, note_data,
                   duration, tempo, keySignature, timeSignature, returned, raised>>

MeasureStartZero(pt) == 0

\* line 120
MeasureStart(pt) == pt

\* lines 119-120: the loop takes the next measure of the part
ExtractNotes_NextMeasure ==
    /\ pc = "measures"
    /\ measure_time' = MeasureStart(part_time)
    /\ pc' = "note_elements"
    /\ UNCHANGED jobVars
    /\ UNCHANGED <<docClass, well_formed, doc, title, composer, remaining,
                   metadata, notes, emitted, part_idx, hand, part_time, note_elem,
                   note_data, duration, tempo, keySignature, timeSignature,
                   returned, raised>>

\* line 129
Advance(cursor, note) == note.start + note.duration

CursorAfterRest(cursor, e, data) ==
    IF data # None THEN Advance(cursor, data[1])
    ELSE IF e.rest /\ FloatParses(e.duration)
         THEN cursor + DurationSeconds(e.duration)
         ELSE cursor

\* lines 127-129: the cursor moves only when the element gave a note; the
\* duration a rest computes at line 146 is not used
CursorAfter(cursor, e, data) ==
    IF data # None THEN Advance(cursor, data[1]) ELSE cursor

\* lines 125-129: the loop takes the next note element of the measure
ExtractNotes_Note ==
    /\ pc = "note_elements"
    /\ remaining > 0
    /\ \E e \in NoteElems(docClass) :
        LET data == ParseNoteElement(e, measure_time, hand)
        IN  /\ note_elem' = Some(e)
            /\ note_data' = data
            /\ notes' = IF data # None THEN Append(notes, data[1]) ELSE notes
            /\ emitted' = IF data # None
                          THEN Append(emitted, [part |-> part_idx, note |-> data[1]])
                          ELSE emitted
            /\ measure_time' = CursorAfter(measure_time, e, data)
    /\ remaining' = remaining - 1
    /\ UNCHANGED jobVars
    /\ UNCHANGED <<docClass, well_formed, doc, title, composer, pc, metadata,
                   part_idx, hand, part_time, duration, tempo, keySignature,
                   timeSignature, returned, raised>>

\* line 131: the measure has no more note elements
ExtractNotes_EndMeasure ==
    /\ pc = "note_elements"
    /\ part_time' = measure_time
    /\ note_elem' = None
    /\ note_data' = None
    /\ pc' = "measures"
    /\ UNCHANGED jobVars
    /\ UNCHANGED <<docClass, well_formed, doc, title, composer, remaining,
                   metadata, notes, emitted, part_idx, hand, measure_time,
                   duration, tempo, keySignature, timeSignature, returned, raised>>

\* line 119: the part has no more measures
ExtractNotes_EndPart ==
    /\ pc = "measures"
    /\ pc' = "parts"
    /\ UNCHANGED jobVars
    /\ UNCHANGED <<docClass, well_formed, doc, title, composer, remaining,
                   metadata, notes, emitted, part_idx, hand, part_time,
                   measure_time, note_elem, note_data, duration, tempo,
                   keySignature, timeSignature, returned, raised>>

\* lines 133-136: there are no more parts; sort and return
ExtractNotes_Return ==
    /\ pc = "parts"
    /\ notes' = SortByStart(notes)
    /\ pc' = "duration"
    /\ UNCHANGED jobVars
    /\ UNCHANGED <<docClass, well_formed, doc, title, composer, remaining,
                   metadata, emitted, part_idx, hand, part_time, measure_time,
                   note_elem, note_data, duration, tempo, keySignature,
                   timeSignature, returned, raised>>

\* line 64
Convert_Duration ==
    /\ pc = "duration"
    /\ duration' = CalculateDuration(notes)
    /\ pc' = "tempo"
    /\ UNCHANGED jobVars
    /\ UNCHANGED <<docClass, well_formed, doc, title, composer, remaining,
                   metadata, notes, emitted, part_idx, hand, part_time,
                   measure_time, note_elem, note_data, tempo, keySignature,
                   timeSignature, returned, raised>>

\* line 65; an exception goes through the handler of lines 74-76
Convert_Tempo ==
    /\ pc = "tempo"
    /\ \E pm \in PerMinutes(docClass) :
        /\ doc' = [doc EXCEPT !.per_minute = pm]
        /\ LET r == ExtractTempo(doc')
           IN  /\ raised' = r.raised
               /\ tempo' = IF r.raised THEN tempo ELSE r.value
               /\ pc' = IF r.raised THEN "done" ELSE "key"
    /\ UNCHANGED jobVars
    /\ UNCHANGED <<docClass, well_formed, title, composer, remaining, metadata,
                   notes, emitted, part_idx, hand, part_time, measure_time,
                   note_elem, note_data, duration, keySignature, timeSignature,
                   returned>>

\* line 66; an exception goes through the handler of lines 74-76
Convert_KeySignature ==
    /\ pc = "key"
    /\ \E k \in Keys(docClass) :
        /\ doc' = [doc EXCEPT !.key = k]
        /\ LET r == ExtractKeySignature(doc')
           IN  /\ raised' = r.raised
               /\ keySignature' = IF r.raised THEN keySignature ELSE r.value
               /\ pc' = IF r.raised THEN "done" ELSE "time"
    /\ UNCHANGED jobVars
    /\ UNCHANGED <<docClass, well_formed, title, composer, remaining, metadata,
                   notes, emitted, part_idx, hand, part_time, measure_time,
                   note_elem, note_data, duration, tempo, timeSignature, returned>>

\* lines 67-72: the last field, then return animation_data
Convert_TimeSignature ==
    /\ pc = "time"
    /\ \E t \in Times(docClass) :
        /\ doc' = [doc EXCEPT !.time = t]
        /\ timeSignature' = ExtractTimeSignature(doc')
    /\ returned' = TRUE
    /\ pc' = "done"
    /\ UNCHANGED jobVars
    /\ UNCHANGED <<docClass, well_formed, title, composer, remaining, metadata,
                   notes, emitted, part_idx, hand, part_time, measure_time,
                   note_elem, note_data, duration, tempo, keySignature, raised>>

Next ==
    \/ Convert_Parse
    \/ Convert_Metadata
    \/ ExtractNotes_NextPart
    \/ ExtractNotes_NextMeasure
    \/ ExtractNotes_Note
    \/ ExtractNotes_EndMeasure
    \/ ExtractNotes_EndPart
    \/ ExtractNotes_Return
    \/ Convert_Duration
    \/ Convert_Tempo
    \/ Convert_KeySignature
    \/ Convert_TimeSignature

Spec == Init /\ [][Next]_vars
SpecNote == InitNote /\ [][Next]_vars
SpecDoc == InitDoc /\ [][Next]_vars

-----------------------------------------------------------------------------
(* storage.py: upload_animation_data and _save_local_fallback *)

\* line 81 and line 111: the locator the call returns names the job id
PublicUrl(job_id) == [kind |-> "remote", job_id |-> job_id]
LocalUrl(job_id) == [kind |-> "local", job_id |-> job_id]

\* lines 68-73: what client.post can do.  The remote answers with a status
\* code, the call raises (no connection), or the remote stays silent and
\* timeout=30.0 makes the call raise httpx.TimeoutException
Answer(code) == [kind |-> "status", code |-> code]
Raises == [kind |-> "raises", code |-> 0]
Silent == [kind |-> "silent", code |-> 0]
Responses == {Answer(code) : code \in {200, 201, 204, 500}} \cup {Raises, Silent}

AcceptedStatusAny2xx(code) == 200 <= code /\ code < 300

\* line 75
AcceptedStatus(code) == code \in {200, 201}

\* lines 96-118: one local write; ok says whether makedirs, open and json.dump
\* all succeed.  A failure is logged and raised again
SaveLocalFallback(job_id, ok) ==
    IF ok
    THEN [writes |-> <<TRUE>>, returned |-> Some(LocalUrl(job_id)), raised |-> FALSE]
    ELSE [writes |-> <<FALSE>>, returned |-> None, raised |-> TRUE]

\* lines 49 and 78 stand inside the try of line 46: when the local write
\* raises there, the handler of lines 86-89 makes the local write once more
FallbackInTry(job_id, w1, w2) ==
    LET first == SaveLocalFallback(job_id, w1)
        second == SaveLocalFallback(job_id, w2)
    IN  IF first.raised THEN [second EXCEPT !.writes = first.writes \o @] ELSE first

\* the record of one call of upload_animation_data
Call(response, r) ==
    [response |-> response, writes |-> r.writes, returned |-> r.returned,
     raised |-> r.raised]

\* lines 47-49: the credentials are missing
WithoutCredentials(job_id, w1, w2) == Call(NoResponse, FallbackInTry(job_id, w1, w2))

\* lines 67-89: client.post has answered or raised
AfterPost(job_id, response, w1, w2) ==
    IF response.kind # "status"
    THEN Call(response, SaveLocalFallback(job_id, w1))
    ELSE IF ~AcceptedStatus(response.code)
         THEN Call(response, FallbackInTry(job_id, w1, w2))
         ELSE Call(response, [writes |-> << >>, returned |-> Some(PublicUrl(job_id)),
                              raised |-> FALSE])

-----------------------------------------------------------------------------
(* app.py: process_pdf, get_processing_status and process_pdf_background *)

\* lines 100-111; created_at and file_info are never read again and are left
\* out.  A key the dict does not hold yet ("result", "error") is None
Queued ==
    [status |-> PENDING, progress |-> 0, message |-> <<"Job queued for processing">>,
     result |-> None, error |-> None]

\* processing_jobs[job_id][key] = value for every key of fields
Merge(entry, fields) ==
    [k \in DOMAIN entry |-> IF k \in DOMAIN fields THEN fields[k] ELSE entry[k]]

UpdateFirst(jobs, job_id, fields) == [jobs EXCEPT ![1] = Merge(@, fields)]

Update(jobs, job_id, fields) == [jobs EXCEPT ![job_id] = Merge(@, fields)]

\* the history of the values assigned to "status" after the assignments of
\* fields
Trail(trail, job_id, fields) ==
    IF "status" \in DOMAIN fields
    THEN [trail EXCEPT ![job_id] = Append(@, fields.status)]
    ELSE trail

StartedWithoutStatus ==
    [progress |-> 10, message |-> <<"Saving uploaded file">>]

\* lines 140-142
Started ==
    [status |-> PROCESSING, progress |-> 10, message |-> <<"Saving uploaded file">>]

\* lines 157-158
Recognizing ==
    [progress |-> 30, message |-> <<"Processing PDF with Audiveris OMR">>]

\* lines 164-165
Converting ==
    [progress |-> 60, message |-> <<"Converting to ClairKeys format">>]

\* lines 171-172
Uploading ==
    [progress |-> 80, message |-> <<"Uploading result to storage">>]

CompletedWithoutResult(storage_url) ==
    [status |-> COMPLETED, progress |-> 100,
     message |-> <<"Processing completed successfully">>]

\* lines 183-191; title, composer and processed_at of the result are left out
Completed(storage_url) ==
    [status |-> COMPLETED, progress |-> 100,
     message |-> <<"Processing completed successfully">>,
     result |-> Some([animation_data_url |-> storage_url])]

\* lines 201-203
Failed(e) ==
    [status |-> FAILED, message |-> <<"Processing failed: ", e>>, error |-> Some(e)]

RemovedNothing(dirs, job_id) == dirs

\* lines 194-195 and 206-209: shutil.rmtree(temp_dir, ignore_errors=True)
Removed(dirs, job_id) == [dirs EXCEPT ![job_id] = FALSE]

\* the task of the job id is at the suspension point, or over
At(job_id, point) == [task EXCEPT ![job_id] = [at |-> point, e |-> None]]

\* lines 199-209: the handler of process_pdf_background; jobs is the map and
\* trail the history as the statements before the exception left them
Fails(job_id, jobs, trail, e) ==
    /\ processing_jobs' = Update(jobs, job_id, Failed(e))
    /\ statuses' = Trail(trail, job_id, Failed(e))
    /\ temp_dir' = Removed(temp_dir, job_id)
    /\ task' = [task EXCEPT ![job_id] = [at |-> "done", e |-> Some(e)]]

\* lines 183-197
Completes(job_id, jobs, storage_url) ==
    /\ processing_jobs' = Update(jobs, job_id, Completed(storage_url))
    /\ statuses' = Trail(statuses, job_id, Completed(storage_url))
    /\ temp_dir' = Removed(temp_dir, job_id)
    /\ task' = At(job_id, "done")

\* lines 82-120: POST /process.  A file name that does not end in .pdf is
\* answered 400 and nothing changes; otherwise the entry is created and the
\* background task is scheduled
ProcessPdf ==
    /\ Len(processing_jobs) < MaxJobs
    /\ \E pdf \in BOOLEAN :
        IF pdf
        THEN LET job_id == Len(processing_jobs) + 1
             IN  /\ processing_jobs' = Append(processing_jobs, Queued)
                 /\ statuses' = Trail(statuses, job_id, Queued)
                 /\ task' = At(job_id, "scheduled")
        ELSE UNCHANGED <<processing_jobs, statuses, task>>
    /\ UNCHANGED <<temp_dir, credentials, audiveris, upload, observed>>
    /\ UNCHANGED converterVars

\* lines 122-128: GET /status/{job_id}
GetProcessingStatus ==
    /\ \E job_id \in JobIds :
        observed' = IF job_id \in DOMAIN processing_jobs
                    THEN [code |-> 200, job_id |-> job_id,
                          body |-> Some(processing_jobs[job_id])]
                    ELSE [code |-> 404, job_id |-> job_id, body |-> None]
    /\ UNCHANGED <<processing_jobs, task, temp_dir, credentials, audiveris, upload,
                   statuses>>
    /\ UNCHANGED converterVars

\* lines 138-151: from the start of the task to the first await of the save
Background_Start(job_id) ==
    /\ task[job_id].at = "scheduled"
    /\ LET jobs == Update(processing_jobs, job_id, Started)
           trail == Trail(statuses, job_id, Started)
       IN  \E made \in BOOLEAN :
            IF made
            THEN /\ processing_jobs' = jobs
                 /\ statuses' = trail
                 /\ temp_dir' = [temp_dir EXCEPT ![job_id] = TRUE]
                 /\ task' = At(job_id, "saving")
            ELSE Fails(job_id, jobs, trail, "mkdir")
    /\ UNCHANGED <<credentials, audiveris, upload, observed>>
    /\ UNCHANGED converterVars

\* lines 150-160 and audiveris.py lines 33-70: the save has answered; the OMR
\* step starts the Audiveris subprocess and awaits process.communicate().
\* The subprocess exits with an output file ("returns"), exits with a non-zero
\* code or without output ("fails"), or never exits ("silent")
Background_Saved(job_id) ==
    /\ task[job_id].at = "saving"
    /\ \E saved \in BOOLEAN, jar \in BOOLEAN,
          process \in {"returns", "fails", "silent"} :
        LET jobs == Update(processing_jobs, job_id, Recognizing)
        IN  IF ~saved
            THEN Fails(job_id, processing_jobs, statuses, "save") /\ UNCHANGED audiveris
            ELSE IF ~jar
                 THEN Fails(job_id, jobs, statuses, "omr") /\ UNCHANGED audiveris
                 ELSE /\ processing_jobs' = jobs
                      /\ task' = At(job_id, "omr")
                      /\ audiveris' = [audiveris EXCEPT ![job_id] = process]
                      /\ UNCHANGED <<temp_dir, statuses>>
    /\ UNCHANGED <<credentials, upload, observed>>
    /\ UNCHANGED converterVars

\* audiveris.py lines 70-98, app.py lines 160-179 and storage.py lines 46-73:
\* process.communicate() has answered.  convert has no await and returns or
\* raises at once; without credentials the upload has no await either
Background_Recognized(job_id) ==
    /\ task[job_id].at = "omr"
    /\ audiveris[job_id] # "silent"
    /\ IF audiveris[job_id] = "fails"
       THEN Fails(job_id, processing_jobs, statuses, "omr") /\ UNCHANGED upload
       ELSE \E converted \in BOOLEAN, w1 \in BOOLEAN, w2 \in BOOLEAN :
            LET at60 == Update(processing_jobs, job_id, Converting)
                at80 == Update(at60, job_id, Uploading)
                call == WithoutCredentials(job_id, w1, w2)
            IN  IF ~converted
                THEN Fails(job_id, at60, statuses, "convert") /\ UNCHANGED upload
                ELSE IF credentials
                     THEN /\ processing_jobs' = at80
                          /\ task' = At(job_id, "uploading")
                          /\ UNCHANGED <<temp_dir, upload, statuses>>
                     ELSE /\ upload' = [upload EXCEPT ![job_id] = call]
                          /\ IF call.raised
                             THEN Fails(job_id, at80, statuses, "upload")
                             ELSE Completes(job_id, at80, call.returned[1])
    /\ UNCHANGED <<credentials, audiveris, observed>>
    /\ UNCHANGED converterVars

\* storage.py lines 68-89 and app.py lines 174-197: client.post has answered
\* or raised
Background_Uploaded(job_id) ==
    /\ task[job_id].at = "uploading"
    /\ \E response \in Responses, w1 \in BOOLEAN, w2 \in BOOLEAN :
        LET call == AfterPost(job_id, response, w1, w2)
        IN  /\ upload' = [upload EXCEPT ![job_id] = call]
            /\ IF call.raised
               THEN Fails(job_id, processing_jobs, statuses, "upload")
               ELSE Completes(job_id, processing_jobs, call.returned[1])
    /\ UNCHANGED <<credentials, audiveris, observed>>
    /\ UNCHANGED converterVars

\* Requests and the tasks of the jobs, interleaved at the suspension points
NextJobs ==
    \/ ProcessPdf
    \/ GetProcessingStatus
    \/ \E job_id \in JobIds : Background_Start(job_id)
    \/ \E job_id \in JobIds : Background_Saved(job_id)
    \/ \E job_id \in JobIds : Background_Recognized(job_id)
    \/ \E job_id \in JobIds : Background_Uploaded(job_id)

\* The service after start-up, with or without storage credentials
InitJobs == Document("timing", 0) /\ \E creds \in BOOLEAN : Service(creds)

SpecJobs == InitJobs /\ [][NextJobs]_vars

\* The event loop runs every task that is ready: a step of a task that stays
\* possible is taken.  Nothing makes the Audiveris subprocess exit
SpecJobsFair ==
    /\ InitJobs
    /\ [][NextJobs]_vars
    /\ \A job_id \in JobIds :
        /\ WF_vars(Background_Start(job_id))
        /\ WF_vars(Background_Saved(job_id))
        /\ WF_vars(Background_Recognized(job_id))
        /\ WF_vars(Background_Uploaded(job_id))

-----------------------------------------------------------------------------
(* Properties *)

\* The notes in the order of their append (line 128)
Extracted == [i \in 1..Len(emitted) |-> emitted[i].note]

\* The sum of the durations of the first n appended notes that are of part p
RECURSIVE PartDurations(_, _)
PartDurations(p, n) ==
    IF n = 0 THEN 0
    ELSE PartDurations(p, n - 1)
         + (IF emitted[n].part = p THEN emitted[n].note.duration ELSE 0)

\* duration units / 4 in thousandths of a second, 0.5 s without a duration
UnitsOverFour(duration_elem) ==
    IF duration_elem.kind = "absent" THEN 500 ELSE duration_elem.val * 250

\* C1: in every part the cursor starts at 0 and is carried across the part's
\* measures; an emitted note starts at the cursor and the cursor becomes its
\* start + duration, duration being units / 4 (0.5 without a duration
\* element). So a note starts at the sum of the durations of the notes
\* emitted before it in its part.
C1_TimingCursor ==
    /\ \A i \in 1..Len(emitted) :
          emitted[i].note.start = PartDurations(emitted[i].part, i - 1)
    /\ pc = "note_elements" => measure_time = PartDurations(part_idx, Len(emitted))
    /\ pc = "measures" => part_time = PartDurations(part_idx, Len(emitted))
    /\ (pc = "note_elements" /\ note_data # None) =>
          /\ note_data[1].start + note_data[1].duration = measure_time
          /\ note_data[1].duration = UnitsOverFour(note_elem[1].duration)
          /\ note_data[1] = emitted[Len(emitted)].note

\* Two notes of one unit each in one part: starts 0.0 and 0.25, durations 0.25
C1_Witness ==
    /\ pc = "note_elements"
    /\ Len(emitted) = 2
    /\ emitted[1].part = emitted[2].part
    /\ note_elem # None /\ note_elem[1].duration = Num(1)
    /\ emitted[1].note.start = 0 /\ emitted[1].note.duration = 250
    /\ emitted[2].note.start = 250 /\ emitted[2].note.duration = 250

\* convert has the sorted notes (line 57 has returned)
AfterExtract == pc \in {"duration", "tempo", "key", "time"} \/ (pc = "done" /\ well_formed)

\* The notes of s that start at t, in the order of s
StartingAt(s, t) == LET AtT(n) == n.start = t IN SelectSeq(s, AtT)

BaseOf(letter) ==
    CASE letter = "C" -> 60 [] letter = "D" -> 62 [] letter = "E" -> 64
      [] letter = "F" -> 65 [] letter = "G" -> 67 [] letter = "A" -> 69
      [] letter = "B" -> 71

Letters == {"C", "D", "E", "F", "G", "A", "B"}

\* The element has a step letter, an integer octave and an integer (or no)
\* alteration
PitchGiven(e) ==
    /\ ~e.rest /\ e.pitch
    /\ e.step.kind = "text" /\ e.step.val \in Letters
    /\ e.octave.kind = "int"
    /\ e.alter.kind \in {"int", "absent"}

\* base(step) + (octave - 4) * 12 + alteration, no alteration counting 0
KeyNumber(e) ==
    BaseOf(e.step.val) + (e.octave.val - 4) * 12
        + (IF e.alter.kind = "int" THEN e.alter.val ELSE 0)

\* The element's duration and fingering do not stop the note
Emittable(e) ==
    /\ e.duration.kind \in {"int", "dec", "absent"}
    /\ e.fingering.kind \in {"int", "text", "absent"}

\* C3: for a step letter, an integer octave and an integer alteration whose
\* key number base(step) + (octave-4)*12 + alteration is within [21,108],
\* _note_to_midi returns that number (C4 60, A0 21, C8 108) and the emitted
\* note's midi is that number.
C3_MidiFormula ==
    /\ NoteToMidi("C", 4, 0) = Some(60)
    /\ NoteToMidi("A", 0, 0) = Some(21)
    /\ NoteToMidi("C", 8, 0) = Some(108)
    /\ (pc = "note_elements" /\ note_elem # None /\ PitchGiven(note_elem[1])
        /\ KeyNumber(note_elem[1]) \in 21..108) =>
          LET e == note_elem[1]
          IN  /\ NoteToMidi(e.step.val, e.octave.val,
                            IF e.alter.kind = "int" THEN e.alter.val ELSE 0)
                   = Some(KeyNumber(e))
              /\ Emittable(e) =>
                    /\ note_data # None
                    /\ note_data[1].midi = KeyNumber(e)
                    /\ notes = <<note_data[1]>>

\* B7 raised by one semitone is emitted as key 108
C3_Witness ==
    /\ pc = "note_elements" /\ note_elem # None /\ note_data # None
    /\ note_elem[1].step.val = "B" /\ note_elem[1].octave = Num(7)
    /\ note_elem[1].alter = Num(1)
    /\ note_data[1].midi = 108

\* The pitch of a pitched note cannot be resolved, or is outside the piano
Unresolvable(e) ==
    /\ ~e.rest /\ e.pitch
    /\ \/ e.step.kind # "text"
       \/ e.step.val \notin Letters
       \/ e.octave.kind # "int"
       \/ e.alter.kind \in {"empty", "text"}
       \/ KeyNumber(e) \notin 21..108

\* The step of _extract_notes that meets a note element
MeetsNote == pc = "note_elements" /\ pc' = "note_elements" /\ remaining' = remaining - 1

Playable(e) ==
    /\ PitchGiven(e)
    /\ KeyNumber(e) \in 21..108
    /\ e.duration.kind \in {"int", "dec", "absent"}

\* C7: fingering never decides whether a note is emitted. A playable note is
\* emitted with finger n for a numeric fingering n within [1,5] and with
\* finger null in every other case (no fingering element, an empty one,
\* non-numeric text, a number outside [1,5]); the cursor advances as usual.
C7_FingeringNeverDrops ==
    (pc = "note_elements" /\ note_elem # None /\ Playable(note_elem[1])) =>
        LET f == note_elem[1].fingering
        IN  /\ note_data # None
            /\ note_data[1].finger =
                  (IF f.kind = "int" /\ f.val \in 1..5 THEN Some(f.val) ELSE None)
            /\ measure_time = note_data[1].start + note_data[1].duration

\* C8: every note of the output has finger null or an integer within [1,5];
\* fingerings 0, 6 and non-numeric text are never stored.
C8_FingerRange ==
    /\ \A i \in 1..Len(notes) :
          notes[i].finger = None \/ notes[i].finger[1] \in 1..5
    /\ (pc = "note_elements" /\ note_data # None
        /\ (note_elem[1].fingering.kind = "text"
            \/ (note_elem[1].fingering.kind = "int"
                /\ note_elem[1].fingering.val \notin 1..5))) =>
          note_data[1].finger = None

\* The output holds a note of finger 3, and a note whose fingering was 6 has
\* just been emitted without finger
C8_Witness ==
    /\ pc = "note_elements" /\ note_elem # None /\ note_data # None
    /\ note_elem[1].fingering = Num(6)
    /\ note_data[1].finger = None
    /\ \E i \in 1..Len(notes) : notes[i].finger = Some(3)

\* duration has been computed (line 64)
AfterDuration == pc \in {"tempo", "key", "time"} \/ (pc = "done" /\ well_formed)

\* The sum of the durations of the notes emitted from part p
PartTotal(p) == PartDurations(p, Len(emitted))

\* C9: the duration of the result is the largest start + duration of an
\* emitted note, and 0.0 when no note is emitted; when no note has a negative
\* duration it is the largest per-part sum of emitted durations.
C9_Duration ==
    AfterDuration =>
        /\ notes = << >> => duration = 0
        /\ notes # << >> =>
              /\ \A i \in 1..Len(notes) : notes[i].start + notes[i].duration <= duration
              /\ \E i \in 1..Len(notes) : notes[i].start + notes[i].duration = duration
        /\ (notes # << >> /\ \A i \in 1..Len(notes) : notes[i].duration >= 0) =>
              /\ \A p \in 0..part_idx : PartTotal(p) <= duration
              /\ \E p \in 0..part_idx : PartTotal(p) = duration

\* The note that ends last is not the last of the sorted notes
C9_Witness ==
    /\ returned
    /\ Len(notes) = 3
    /\ duration = 750
    /\ notes[3].start + notes[3].duration < duration

\* C5: a failure while interpreting a single element of a parsed document
\* (a note, a pitch, a fingering, a tempo, key-signature or time-signature
\* marking with missing or non-numeric content) never leaves convert; only
\* the failure to parse the document does. Stated for the contents named
\* here: a per-minute text that float() reads as infinite is left aside.
C5_NoEscalation ==
    (well_formed /\ doc.per_minute.kind # "inf") => ~raised

\* Text that holds a character other than a space
NonBlank(elem) ==
    elem.kind = "text" /\ \E i \in 1..Len(elem.val) : elem.val[i] # " "

\* The document's text when it is not blank, else the argument when one is
\* given, else the default
Resolved(elem, arg, default) ==
    IF NonBlank(elem) THEN Strip(elem.val)
    ELSE IF arg # None /\ arg # Some(<< >>) THEN arg[1]
    ELSE default

\* metadata has been extracted (line 53)
AfterMetadata == pc \notin {"convert", "metadata"} /\ well_formed

\* C6: the title is the document's work title when present and not blank,
\* else the title argument when given, else "Untitled"; the composer likewise
\* from the composer creator, the composer argument and "Unknown". A blank
\* title falls through to the argument or the default.
C6_MetadataResolution ==
    AfterMetadata =>
        /\ metadata.title = Resolved(doc.work_title, title, Untitled)
        /\ metadata.composer = Resolved(doc.creator, composer, Unknown)

\* The entry of the table ["C","G","D","A","E","B","F#","C#"] for f in 0..7
KeyName(f) ==
    CASE f = 0 -> "C" [] f = 1 -> "G" [] f = 2 -> "D" [] f = 3 -> "A"
      [] f = 4 -> "E" [] f = 5 -> "B" [] f = 6 -> "F#" [] f = 7 -> "C#"

\* line 66 has been executed
KeySignatureRead ==
    pc = "time" \/ (pc = "done" /\ well_formed /\ doc.per_minute.kind # "inf")

\* The first key marking, if any, has no fifths element or an integer one
FifthsGiven ==
    doc.key = << >> \/ doc.key[1].fifths.kind \in {"int", "absent"}

EarlierInPart(i) == {j \in 1..(i - 1) : emitted[j].part = emitted[i].part}

\* the end of the note appended last before the i-th in its part, or 0
PreviousEnd(i) ==
    IF EarlierInPart(i) = {} THEN 0
    ELSE LET j == CHOOSE k \in EarlierInPart(i) : \A l \in EarlierInPart(i) : l <= k
         IN  NoteEnd(emitted[j].note)

HandCount(h) == Cardinality({i \in 1..Len(notes) : notes[i].hand = h})

\* how many notes were appended for the parts of the set
PartCount(parts) == Cardinality({i \in 1..Len(emitted) : emitted[i].part \in parts})

\* C16: a note appended for the first part has hand "R" and a note appended
\* for any later part (the second, the third, ...) has hand "L"; the notes
\* have no other hand, and after the sort they are the appended notes, each
\* with the hand it was given.
C16_HandByPart ==
    /\ \A i \in 1..Len(emitted) :
          emitted[i].note.hand = IF emitted[i].part = 0 THEN "R" ELSE "L"
    /\ \A i \in 1..Len(notes) :
          /\ notes[i].hand \in {"R", "L"}
          /\ \E j \in 1..Len(emitted) : notes[i] = emitted[j].note
    /\ AfterExtract =>
          /\ Len(notes) = Len(emitted)
          /\ HandCount("R") = PartCount({0})
          /\ HandCount("L") = PartCount(1..(MaxParts - 1))

\* One note from each of three parts, sorted: the first part's is "R", the
\* second's and the third's are "L"
C16_Witness ==
    /\ AfterExtract
    /\ Len(emitted) = 3
    /\ emitted[1].part = 0 /\ emitted[2].part = 1 /\ emitted[3].part = 2
    /\ emitted[3].note.hand = "L"
    /\ HandCount("R") = 1
    /\ HandCount("L") = 2

-----------------------------------------------------------------------------
(* The job pipeline *)

\* the job ids POST /process has created
Jobs == DOMAIN processing_jobs

StatusOf(job_id) == processing_jobs[job_id].status

\* the histories of a job's status the lifecycle allows
Lifecycles ==
    {<<PENDING>>, <<PENDING, PROCESSING>>, <<PENDING, PROCESSING, COMPLETED>>,
     <<PENDING, PROCESSING, FAILED>>}

\* C11: a job is created with status pending, and the values assigned to its
\* status are pending, then processing, then completed or failed, each at
\* most once and in this order; nothing is assigned after completed or after
\* failed, and the entry holds the last value assigned.
C11_Lifecycle ==
    \A job_id \in JobIds :
        IF job_id \in Jobs
        THEN /\ statuses[job_id] \in Lifecycles
             /\ StatusOf(job_id) = Last(statuses[job_id])
        ELSE statuses[job_id] = << >>

\* one job went pending, processing, completed and the other pending,
\* processing, failed
C11_Witness ==
    /\ Jobs = {1, 2}
    /\ statuses[1] = <<PENDING, PROCESSING, COMPLETED>>
    /\ statuses[2] = <<PENDING, PROCESSING, FAILED>>

Entry(job_id) == processing_jobs[job_id]

\* the exception the handler of the job's task caught, if any
Caught(job_id) == task[job_id].e

\* C12: when a stage of a job's task raises (mkdir, saving the upload, the
\* OMR step, the conversion, the storage upload), the task is over, the job
\* has status failed and not processing, its message describes the failure,
\* its error field is the text of the exception, it has no result and its
\* temporary directory is gone.  An upload that raised and an Audiveris run
\* that failed are such stages.
C12_FailureHandled ==
    \A job_id \in Jobs :
        /\ Caught(job_id) # None =>
            /\ Caught(job_id)[1] \in Stages
            /\ task[job_id].at = "done"
            /\ StatusOf(job_id) = FAILED
            /\ Entry(job_id).message = <<"Processing failed: ", Caught(job_id)[1]>>
            /\ Entry(job_id).error = Caught(job_id)
            /\ Entry(job_id).result = None
            /\ ~temp_dir[job_id]
        /\ upload[job_id].raised => Caught(job_id) = Some("upload")
        /\ (audiveris[job_id] = "fails" /\ task[job_id].at # "omr")
            => Caught(job_id) = Some("omr")

\* the upload of one job raised after its directory had been made and the
\* conversion of the other job raised; both are failed and cleaned up
C12_Witness ==
    /\ Jobs = {1, 2}
    /\ Caught(1) = Some("upload")
    /\ upload[1].writes = <<FALSE, FALSE>>
    /\ Caught(2) = Some("convert")
    /\ StatusOf(1) = FAILED
    /\ StatusOf(2) = FAILED
    /\ ~temp_dir[1]
    /\ ~temp_dir[2]

\* upload_animation_data has been called for the job id
Uploaded(job_id) == upload[job_id] # NoUpload

\* the remote answered the upload of the job id with status 200 or 201
RemoteAccepted(job_id) ==
    /\ credentials
    /\ upload[job_id].response \in {Answer(200), Answer(201)}

\* C13: a call of upload_animation_data returns the remote public URL exactly
\* when the credentials are set and the remote answered 200 or 201, and then
\* it writes nothing locally.  In every other case (credentials missing, any
\* other status, the remote call raising or timing out) it makes a local
\* write; it returns the local file locator when a local write succeeded and
\* raises only when every local write it made failed.
C13_UploadFallback ==
    \A job_id \in JobIds :
        Uploaded(job_id) =>
            LET call == upload[job_id]
                wrote == \E i \in DOMAIN call.writes : call.writes[i]
            IN  /\ call.returned = Some(PublicUrl(job_id)) <=> RemoteAccepted(job_id)
                /\ RemoteAccepted(job_id) => call.writes = << >>
                /\ ~RemoteAccepted(job_id) => call.writes # << >>
                /\ wrote <=> call.returned = Some(LocalUrl(job_id))
                /\ call.raised <=> (~RemoteAccepted(job_id) /\ ~wrote)
                /\ call.raised <=> call.returned = None
                /\ ~credentials => call.response = NoResponse

\* the remote answered 500 to one upload, whose second local write succeeded,
\* and 201 to the other
C13_Witness ==
    /\ upload[1].response = Answer(500)
    /\ upload[1].writes = <<FALSE, TRUE>>
    /\ upload[1].returned = Some(LocalUrl(1))
    /\ upload[2].response = Answer(201)
    /\ upload[2].returned = Some(PublicUrl(2))

Ended(job_id) == job_id \in Jobs /\ StatusOf(job_id) \in {COMPLETED, FAILED}

Begun(job_id) == job_id \in Jobs /\ StatusOf(job_id) = PROCESSING

\* C14: every job that has status processing eventually has status completed
\* or failed, also when the Audiveris subprocess or the remote storage does
\* not answer.
C14_EveryJobEnds == \A job_id \in JobIds : Begun(job_id) ~> Ended(job_id)

\* what belongs to one job: its entry, its directory, its upload, its task
Owned(job_id) ==
    <<IF job_id \in Jobs THEN <<Entry(job_id)>> ELSE << >>, temp_dir[job_id],
      upload[job_id], audiveris[job_id], statuses[job_id]>>

\* the result of a job whose task is over, from what happened to this job
\* alone: failed with the exception its own stage raised, or completed with
\* the locator its own upload returned, which names its own job id
OwnOutcome(job_id) ==
    IF Caught(job_id) # None
    THEN /\ StatusOf(job_id) = FAILED
         /\ Entry(job_id).error = Caught(job_id)
    ELSE /\ StatusOf(job_id) = COMPLETED
         /\ Entry(job_id).result = Some([animation_data_url |-> upload[job_id].returned[1]])
         /\ upload[job_id].returned[1].job_id = job_id

\* C17: whatever the interleaving of the tasks and the status readers, a step
\* moves at most one task, and the entry (status, progress, message, result,
\* error), directory and upload of every job whose own task did not move are
\* left as they were; a status reader changes no entry.  The outcome of a
\* job whose task is over is the one its own stages produced.
C17_JobIsolation ==
    /\ [][/\ \A job_id \in Jobs :
                task'[job_id] = task[job_id] => Owned(job_id)' = Owned(job_id)
          /\ Cardinality({job_id \in JobIds : task'[job_id] # task[job_id]}) <= 1
          /\ observed' # observed => processing_jobs' = processing_jobs]_vars
    /\ [](\A job_id \in Jobs : task[job_id].at = "done" => OwnOutcome(job_id))

\* the second job completed while the first waits for Audiveris, and a reader
\* saw the first job at progress 30 in between
C17_Witness ==
    /\ Jobs = {1, 2}
    /\ task[1].at = "omr"
    /\ Entry(1).progress = 30
    /\ StatusOf(2) = COMPLETED
    /\ Entry(2).result = Some([animation_data_url |-> LocalUrl(2)])
    /\ observed = [code |-> 200, job_id |-> 1, body |-> Some(Entry(1))]

ProgressValues == {0, 10, 30, 60, 80, 100}

\* the storage locators upload_animation_data returns
Locators == {PublicUrl(job_id) : job_id \in JobIds} \cup {LocalUrl(job_id) : job_id \in JobIds}

\* what a status reader may see in one entry
Consistent(entry) ==
    /\ entry.progress \in ProgressValues
    /\ entry.status = COMPLETED <=> entry.progress = 100
    /\ entry.status = COMPLETED <=> entry.result # None
    /\ entry.result # None => entry.result[1].animation_data_url \in Locators
    /\ entry.status = FAILED <=> entry.error # None
    /\ entry.status = PENDING => entry.progress = 0

\* C18: in every state a status reader can observe (the states at the
\* suspension points), and in every answer of GET /status, an entry has a progress of 0, 10, 30, 60, 80 or 100;
\* progress is 100 and a result with a storage locator is there exactly when
\* the status is completed; the error field is there exactly when the status
\* is failed; pending implies progress 0.  The progress of a job never
\* decreases.
C18_ObservableEntries ==
    /\ [](\A job_id \in Jobs : Consistent(Entry(job_id)))
    /\ [](observed.body # None => Consistent(observed.body[1]))
    /\ [][\A job_id \in Jobs : Entry(job_id)'.progress >= Entry(job_id).progress]_vars

\* a reader was answered the completed entry of the first job, with its
\* result, while the second job is failed at progress 80
C18_Witness ==
    /\ Jobs = {1, 2}
    /\ observed.job_id = 1
    /\ observed.body = Some(Entry(1))
    /\ StatusOf(1) = COMPLETED
    /\ Entry(1).progress = 100
    /\ Entry(1).result = Some([animation_data_url |-> PublicUrl(1)])
    /\ StatusOf(2) = FAILED
    /\ Entry(2).progress = 80
    /\ Entry(2).error = Some("upload")

=============================================================================
